---- MODULE Spec2Model ----
(***************************************************************************)
(* State-machine model of the normalization passes of the parsers          *)
(*   parsers/US_CA.py  (fetch_production, fetch_consumption,               *)
(*                      add_production_to_dict, time reconstruction)       *)
(*   parsers/CA_QC.py  (fetch_production, fetch_consumption)               *)
(*                                                                         *)
(* Text is modelled as a sequence of one-character strings, MW values as   *)
(* integers, a raised Python exception as a record                         *)
(* [status |-> "raised", error |-> <exception name>].                      *)
(***************************************************************************)
EXTENDS Integers, Sequences, FiniteSets, TLC

VARIABLES
    pc,               \* position of the running function
    fragment,         \* the "HH:MM" text handed to the time reconstruction
    csv,              \* pandas.read_csv(target_url): the fetched rows
    df,               \* the rows the row loop iterates
    index,            \* number of rows / elements the loop has taken so far
    k,                \* iterations done of the current inner mode loop
    mode,             \* US_CA.fetch_production: loop variable `mode`
    production_value, \* US_CA.fetch_production: local `production_value`
    production_mix,   \* US_CA.fetch_production: local `production_mix`
    storage_mix,      \* US_CA.fetch_production: local `storage_mix`
    row_datetime,     \* local `row_datetime` (outcome of the reconstruction)
    all_data_points,  \* records handed to append(), in call order
    returned,         \* what the function handed back to its caller
    production_dict,  \* add_production_to_dict: the dict being filled
    call,             \* add_production_to_dict: arguments of the last call
    ncalls,           \* add_production_to_dict: calls made so far
    data,             \* CA_QC: response.json()["details"]
    now               \* CA_QC.fetch_production: datetime.now(tz=TIMEZONE)

vars == <<pc, fragment, csv, df, index, k, mode, production_value,
          production_mix, storage_mix, row_datetime, all_data_points,
          returned, production_dict, call, ncalls, data, now>>

rowVars == <<k, mode, production_value, production_mix, storage_mix>>
dictVars == <<production_dict, call, ncalls>>
qcVars == <<data, now>>

(***************************************************************************)
(* Bounds of the model                                                     *)
(***************************************************************************)
MaxFragLen == 5     \* longest time fragment enumerated for the reconstruction
MaxRows == 2        \* most rows of a fetched CSV
MaxCalls == 2       \* most calls of add_production_to_dict in one run
MaxElems == 2       \* most elements of a CA_QC "details" array
MaxTime == 2        \* CA_QC instants are 0..MaxTime

Min(a, b) == IF a < b THEN a ELSE b
Max(a, b) == IF a > b THEN a ELSE b

(***************************************************************************)
(* Python text primitives used by the time reconstruction                  *)
(***************************************************************************)
DigitChars == {"0", "1", "2", "3", "4", "5", "6", "7", "8", "9"}

DigitVal(c) ==
    CASE c = "0" -> 0 [] c = "1" -> 1 [] c = "2" -> 2 [] c = "3" -> 3
      [] c = "4" -> 4 [] c = "5" -> 5 [] c = "6" -> 6 [] c = "7" -> 7
      [] c = "8" -> 8 [] c = "9" -> 9

RECURSIVE DecValue(_)
DecValue(s) ==
    IF s = <<>> THEN 0
    ELSE 10 * DecValue(SubSeq(s, 1, Len(s) - 1)) + DigitVal(s[Len(s)])

\* int(s) on text made of the characters of Alphabet: a non-empty run of
\* decimal digits converts, anything else raises ValueError.
py_int(s) ==
    IF Len(s) > 0 /\ \A i \in 1..Len(s) : s[i] \in DigitChars
    THEN [status |-> "ok", value |-> DecValue(s)]
    ELSE [status |-> "raised", error |-> "ValueError"]

\* s[:2]
SliceFirst2(s) == SubSeq(s, 1, Min(2, Len(s)))

\* s[-2:]
SliceLast2(s) == SubSeq(s, Max(1, Len(s) - 1), Len(s))

\* s.split(":")
RECURSIVE py_split(_)
py_split(s) ==
    IF \A i \in 1..Len(s) : s[i] # ":" THEN <<s>>
    ELSE LET i == CHOOSE j \in 1..Len(s) :
                     s[j] = ":" /\ \A h \in 1..(j - 1) : s[h] # ":"
         IN <<SubSeq(s, 1, i - 1)>> \o py_split(SubSeq(s, i + 1, Len(s)))

\* datetime.replace(hour=h, minute=m) on the reference date: the date part
\* is kept, hour and minute are set; out-of-range values raise ValueError.
datetime_replace(h, m) ==
    IF h \in 0..23 /\ m \in 0..59
    THEN [status |-> "ok", hour |-> h, minute |-> m]
    ELSE [status |-> "raised", error |-> "ValueError"]

\* target_datetime.replace(hour=int(time[:2]), minute=int(time[-2:]))
ReplaceHourMinute(time) ==
    LET h == py_int(SliceFirst2(time))
        m == py_int(SliceLast2(time))
    IN IF h.status = "raised" THEN h
       ELSE IF m.status = "raised" THEN m
       ELSE datetime_replace(h.value, m.value)

\* h, m = map(int, time.split(":")); ....replace(hour=h, minute=m, ...)
SplitHourMinute(time) ==
    LET parts == py_split(time)
    IN IF Len(parts) # 2 THEN [status |-> "raised", error |-> "ValueError"]
       ELSE LET h == py_int(parts[1])
                m == py_int(parts[2])
            IN IF h.status = "raised" THEN h
               ELSE IF m.status = "raised" THEN m
               ELSE datetime_replace(h.value, m.value)

(***************************************************************************)
(* Inputs of the time reconstruction                                       *)
(***************************************************************************)
Alphabet == {"0", "2", "4", "6", ":", "O"}

Fragments == UNION {[1..n -> Alphabet] : n \in 0..MaxFragLen}

NoDatetime == [status |-> "none"]
Running == [status |-> "running"]
NoCall == [mode |-> "", value |-> 0]

\* the state every function starts from, its inputs apart
InitLocals ==
    /\ df = <<>> /\ index = 0 /\ k = 0
    /\ mode = "" /\ production_value = 0
    /\ production_mix = <<>> /\ storage_mix = <<>>
    /\ row_datetime = NoDatetime
    /\ all_data_points = <<>>
    /\ returned = Running
    /\ production_dict = <<>> /\ call = NoCall /\ ncalls = 0

InitTime ==
    /\ pc = "time"
    /\ fragment \in Fragments
    /\ csv = <<>>
    /\ data = <<>> /\ now = 0
    /\ InitLocals

\* US_CA.fetch_production / fetch_consumption: the reconstruction by slicing
ReconstructBySlice ==
    /\ pc = "time"
    /\ pc' = "sliced"
    /\ row_datetime' = ReplaceHourMinute(fragment)
    /\ UNCHANGED <<fragment, csv, df, index, rowVars, all_data_points,
                   returned, dictVars, qcVars>>

\* US_CA.fetch_exchange: the reconstruction by splitting at the colon
ReconstructBySplit ==
    /\ pc = "time"
    /\ pc' = "split"
    /\ row_datetime' = SplitHourMinute(fragment)
    /\ UNCHANGED <<fragment, csv, df, index, rowVars, all_data_points,
                   returned, dictVars, qcVars>>

NextTime == ReconstructBySlice \/ ReconstructBySplit

SpecTime == InitTime /\ [][NextTime]_vars

(***************************************************************************)
(* US_CA.py: the static tables                                             *)
(***************************************************************************)
\* the keys of PRODUCTION_MODES_MAPPING, in the dict's order
PRODUCTION_MODES ==
    <<"solar", "wind", "geothermal", "biomass", "biogas", "small hydro",
      "coal", "nuclear", "natural gas", "large hydro", "other">>

PRODUCTION_MODES_MAPPING ==
    [m \in {PRODUCTION_MODES[i] : i \in 1..Len(PRODUCTION_MODES)} |->
        CASE m = "solar" -> "solar"
          [] m = "wind" -> "wind"
          [] m = "geothermal" -> "geothermal"
          [] m = "biomass" -> "biomass"
          [] m = "biogas" -> "biomass"
          [] m = "small hydro" -> "hydro"
          [] m = "coal" -> "coal"
          [] m = "nuclear" -> "nuclear"
          [] m = "natural gas" -> "gas"
          [] m = "large hydro" -> "hydro"
          [] m = "other" -> "unknown"]

InList(x, list) == \E i \in 1..Len(list) : list[i] = x

IsNotHydroField(m) == m \notin {"large hydro", "small hydro"}

\* the filter of the comprehension inverted: `in` for `not in`
IsHydroField(m) == m \in {"large hydro", "small hydro"}
CORRECT_NEGATIVE_inverted == SelectSeq(PRODUCTION_MODES, IsHydroField)

CORRECT_NEGATIVE_PRODUCTION_MODES_WITH_ZERO ==
    SelectSeq(PRODUCTION_MODES, IsNotHydroField)

\* the list the first mode loop of fetch_production iterates
NON_HYDRO_MODES == SelectSeq(PRODUCTION_MODES, IsNotHydroField)

\* the list the second mode loop of fetch_production iterates
HYDRO_MODES == <<"small hydro", "large hydro">>

ZONE_KEY == "US-CAL-CISO"

(***************************************************************************)
(* electricitymap.contrib.lib.models.events: ProductionMix and StorageMix. *)
(* A mix is a mapping from the modes that were given a value to their      *)
(* value; ProductionMix() and StorageMix() are the empty mapping.          *)
(***************************************************************************)
AddToMix(mix, m, value) ==
    IF m \in DOMAIN mix
    THEN [mix EXCEPT ![m] = @ + value]
    ELSE [x \in DOMAIN mix \cup {m} |-> IF x = m THEN value ELSE mix[x]]

\* ProductionMix.add_value(mode, value, correct_negative_with_zero)
ProductionMix_add_value(mix, m, value, correct_negative_with_zero) ==
    AddToMix(mix, m,
             IF correct_negative_with_zero /\ value < 0 THEN 0 ELSE value)

\* StorageMix.add_value(mode, value)
StorageMix_add_value(mix, m, value) == AddToMix(mix, m, value)

(***************************************************************************)
(* US_CA.add_production_to_dict                                            *)
(***************************************************************************)
\* `=` for `+=`: the value of a mode already present is overwritten
add_production_to_dict_overwrite(m, value, dict) ==
    IF m \notin DOMAIN PRODUCTION_MODES_MAPPING
    THEN [status |-> "raised", error |-> "KeyError"]
    ELSE [status |-> "returned",
          value |-> [x \in DOMAIN dict \cup {PRODUCTION_MODES_MAPPING[m]} |->
                        IF x = PRODUCTION_MODES_MAPPING[m] THEN value
                        ELSE dict[x]]]

add_production_to_dict(m, value, dict) ==
    IF m \notin DOMAIN PRODUCTION_MODES_MAPPING
    THEN [status |-> "raised", error |-> "KeyError"]
    ELSE IF PRODUCTION_MODES_MAPPING[m] \notin DOMAIN dict
    THEN [status |-> "returned",
          value |-> [x \in DOMAIN dict \cup {PRODUCTION_MODES_MAPPING[m]} |->
                        IF x = PRODUCTION_MODES_MAPPING[m] THEN value
                        ELSE dict[x]]]
    ELSE [status |-> "returned",
          value |-> [dict EXCEPT ![PRODUCTION_MODES_MAPPING[m]] = @ + value]]

(***************************************************************************)
(* The fetched fuelsource.csv: its header and the rows enumerated          *)
(***************************************************************************)
CSV_COLUMNS ==
    <<"Time", "Solar", "Wind", "Geothermal", "Biomass", "Biogas",
      "Small hydro", "Coal", "Nuclear", "Natural Gas", "Large Hydro",
      "Batteries", "Imports", "Other">>

\* col.lower() on the header's names
py_lower(col) ==
    CASE col = "Time" -> "time"
      [] col = "Solar" -> "solar"
      [] col = "Wind" -> "wind"
      [] col = "Geothermal" -> "geothermal"
      [] col = "Biomass" -> "biomass"
      [] col = "Biogas" -> "biogas"
      [] col = "Small hydro" -> "small hydro"
      [] col = "Coal" -> "coal"
      [] col = "Nuclear" -> "nuclear"
      [] col = "Natural Gas" -> "natural gas"
      [] col = "Large Hydro" -> "large hydro"
      [] col = "Batteries" -> "batteries"
      [] col = "Imports" -> "imports"
      [] col = "Other" -> "other"

\* df.columns = [col.lower() for col in df.columns], on one row
LowerColumns(r) ==
    [c \in {py_lower(col) : col \in DOMAIN r} |->
        r[CHOOSE col \in DOMAIN r : py_lower(col) = c]]

T_12_30 == <<"1", "2", ":", "3", "0">>
T_00_00 == <<"0", "0", ":", "0", "0">>
T_OO_OO == <<"O", "O", ":", "O", "O">>

RowTimes == {T_12_30, T_00_00, T_OO_OO}

\* The MW readings of an enumerated row: column n of the header holds
\*   "pos": n     "neg": -n     "zero": 0
\*   "mix": n, -n or 0 as n leaves remainder 0, 1 or 2 modulo 3
RowPatterns == {"pos", "neg", "zero", "mix"}

Reading(pattern, n) ==
    CASE pattern = "pos" -> n
      [] pattern = "neg" -> 0 - n
      [] pattern = "zero" -> 0
      [] pattern = "mix" ->
            IF n % 3 = 0 THEN n ELSE IF n % 3 = 1 THEN 0 - n ELSE 0

CsvRow(time, pattern) ==
    [col \in {CSV_COLUMNS[n] : n \in 1..Len(CSV_COLUMNS)} |->
        IF col = "Time" THEN time
        ELSE Reading(pattern,
                     CHOOSE n \in 1..Len(CSV_COLUMNS) : CSV_COLUMNS[n] = col)]

CsvRows == {CsvRow(t, p) : t \in RowTimes, p \in RowPatterns}

CsvFiles == UNION {[1..n -> CsvRows] : n \in 0..MaxRows}

Raised(e) == [status |-> "raised", error |-> e]

(***************************************************************************)
(* US_CA.fetch_production                                                  *)
(***************************************************************************)
InitProduction ==
    /\ pc = "read_csv"
    /\ csv \in CsvFiles
    /\ fragment = <<>>
    /\ data = <<>> /\ now = 0
    /\ InitLocals

\* csv.iloc[-1]["Time"] == "OO:OO" selects the rows kept for the loop
FilterLastRow(file) ==
    IF file[Len(file)]["Time"] = T_OO_OO
    THEN SubSeq(file, 1, Len(file) - 1)
    ELSE file

\* lines 92-101: read the CSV, filter the last row, lower-case the columns
ReadCsv ==
    /\ pc = "read_csv"
    /\ IF Len(csv) = 0
       THEN /\ pc' = "raised"
            /\ returned' = Raised("IndexError")
            /\ df' = df
       ELSE /\ pc' = "rows"
            /\ df' = [i \in 1..Len(FilterLastRow(csv)) |->
                         LowerColumns(FilterLastRow(csv)[i])]
            /\ returned' = returned
    /\ UNCHANGED <<fragment, csv, index, rowVars, row_datetime,
                   all_data_points, dictVars, qcVars>>

\* lines 104-109: take the next row, start its mixes, rebuild its timestamp
StartRow ==
    /\ pc = "rows"
    /\ index < Len(df)
    /\ index' = index + 1
    /\ production_mix' = <<>>
    /\ storage_mix' = <<>>
    /\ row_datetime' = ReplaceHourMinute(df[index + 1]["time"])
    /\ IF row_datetime'.status = "raised"
       THEN /\ pc' = "raised"
            /\ returned' = row_datetime'
       ELSE /\ pc' = "modes"
            /\ returned' = returned
    /\ k' = 0
    /\ UNCHANGED <<fragment, csv, df, mode, production_value,
                   all_data_points, dictVars, qcVars>>

\* lines 111-121: one iteration of the loop over the non-hydro modes
AddMode ==
    /\ pc = "modes"
    /\ k < Len(NON_HYDRO_MODES)
    /\ mode' = NON_HYDRO_MODES[k + 1]
    /\ production_value' = df[index][mode']
    /\ production_mix' =
          ProductionMix_add_value(
              production_mix, PRODUCTION_MODES_MAPPING[mode'],
              production_value',
              InList(mode', CORRECT_NEGATIVE_PRODUCTION_MODES_WITH_ZERO))
    /\ IF k + 1 = Len(NON_HYDRO_MODES)
       THEN pc' = "hydro" /\ k' = 0
       ELSE pc' = "modes" /\ k' = k + 1
    /\ UNCHANGED <<fragment, csv, df, index, storage_mix, row_datetime,
                   all_data_points, returned, dictVars, qcVars>>

\* lines 123-128: one iteration of the loop over the two hydro fields
AddHydro ==
    /\ pc = "hydro"
    /\ k < Len(HYDRO_MODES)
    /\ mode' = HYDRO_MODES[k + 1]
    /\ production_value' = df[index][mode']
    /\ IF production_value' < 0
       THEN /\ storage_mix' =
                  StorageMix_add_value(storage_mix, "hydro",
                                       production_value' * (0 - 1))
            /\ production_mix' = production_mix
       ELSE /\ production_mix' =
                  ProductionMix_add_value(production_mix, "hydro",
                                          production_value', FALSE)
            /\ storage_mix' = storage_mix
    /\ IF k + 1 = Len(HYDRO_MODES)
       THEN pc' = "battery" /\ k' = 0
       ELSE pc' = "hydro" /\ k' = k + 1
    /\ UNCHANGED <<fragment, csv, df, index, row_datetime,
                   all_data_points, returned, dictVars, qcVars>>

\* the `* -1` of line 130 left out
BatteryStorage_unnegated(mix, r) ==
    StorageMix_add_value(mix, "battery", r["batteries"])

\* line 130: storage_mix.add_value("battery", float(row["batteries"]) * -1)
BatteryStorage(mix, r) ==
    StorageMix_add_value(mix, "battery", r["batteries"] * (0 - 1))

\* lines 130-137: the battery reading, then the record is appended
AddBatteryAndAppend ==
    /\ pc = "battery"
    /\ storage_mix' = BatteryStorage(storage_mix, df[index])
    /\ all_data_points' =
          Append(all_data_points,
                 [zoneKey |-> ZONE_KEY,
                  production |-> production_mix,
                  storage |-> storage_mix',
                  source |-> "caiso.com",
                  datetime |-> row_datetime])
    /\ pc' = "rows"
    /\ UNCHANGED <<fragment, csv, df, index, k, mode, production_value,
                   production_mix, row_datetime, returned, dictVars, qcVars>>

\* line 139: return all_data_points.to_list()
ReturnList ==
    /\ pc = "rows"
    /\ index = Len(df)
    /\ pc' = "done"
    /\ returned' = [status |-> "returned", value |-> all_data_points]
    /\ UNCHANGED <<fragment, csv, df, index, rowVars, row_datetime,
                   all_data_points, dictVars, qcVars>>

(***************************************************************************)
(* A caller of US_CA.add_production_to_dict: it fills one dict, call by    *)
(* call, with any raw field name and any reading.                          *)
(***************************************************************************)
RawFieldNames ==
    {py_lower(CSV_COLUMNS[n]) : n \in 2..Len(CSV_COLUMNS)}

DictReadings == {0 - 3, 0, 2, 5}

InitDict ==
    /\ pc = "dict"
    /\ csv = <<>>
    /\ fragment = <<>>
    /\ data = <<>> /\ now = 0
    /\ InitLocals

CallAddProductionToDict ==
    /\ pc = "dict"
    /\ ncalls < MaxCalls
    /\ \E m \in RawFieldNames, value \in DictReadings :
          /\ call' = [mode |-> m, value |-> value]
          /\ LET r == add_production_to_dict(m, value, production_dict)
             IN IF r.status = "raised"
                THEN /\ pc' = "raised"
                     /\ returned' = r
                     /\ production_dict' = production_dict
                ELSE /\ pc' = "dict"
                     /\ returned' = r
                     /\ production_dict' = r.value
    /\ ncalls' = ncalls + 1
    /\ UNCHANGED <<fragment, csv, df, index, rowVars, row_datetime,
                   all_data_points, qcVars>>

NextProduction ==
    \/ ReadCsv
    \/ StartRow
    \/ AddMode
    \/ AddHydro
    \/ AddBatteryAndAppend
    \/ ReturnList
    \/ CallAddProductionToDict

SpecProduction == (InitProduction \/ InitDict) /\ [][NextProduction]_vars

(***************************************************************************)
(* US_CA.fetch_consumption.  A float cell of the demand CSV is NaN or a    *)
(* number.                                                                 *)
(***************************************************************************)
NaN == [nan |-> TRUE]
Float(v) == [nan |-> FALSE, value |-> v]
np_isnan(x) == x.nan

DemandCells == {NaN, Float(0), Float(7)}

\* a row of netdemand.csv as itertuples() hands it over: Time and _3
DemandRows == {[c \in {"Time", "_3"} |-> IF c = "Time" THEN t ELSE d] :
                 t \in RowTimes, d \in DemandCells}

DemandFiles == UNION {[1..n -> DemandRows] : n \in 0..MaxRows}

InitConsumption ==
    /\ pc = "c_read_csv"
    /\ csv \in DemandFiles
    /\ fragment = <<>>
    /\ data = <<>> /\ now = 0
    /\ InitLocals

\* lines 157-163: read the CSV, filter the last row
ConsumptionReadCsv ==
    /\ pc = "c_read_csv"
    /\ IF Len(csv) = 0
       THEN /\ pc' = "raised"
            /\ returned' = Raised("IndexError")
            /\ df' = df
       ELSE /\ pc' = "c_rows"
            /\ df' = FilterLastRow(csv)
            /\ returned' = returned
    /\ UNCHANGED <<fragment, csv, index, rowVars, row_datetime,
                   all_data_points, dictVars, qcVars>>

\* lines 166-177: one row of the loop
ConsumptionRow ==
    /\ pc = "c_rows"
    /\ index < Len(df)
    /\ index' = index + 1
    /\ row_datetime' = ReplaceHourMinute(df[index + 1]["Time"])
    /\ IF row_datetime'.status = "raised"
       THEN /\ pc' = "raised"
            /\ returned' = row_datetime'
            /\ all_data_points' = all_data_points
       ELSE /\ pc' = "c_rows"
            /\ returned' = returned
            /\ all_data_points' =
                  IF ~np_isnan(df[index + 1]["_3"])
                  THEN Append(all_data_points,
                              [zoneKey |-> ZONE_KEY,
                               consumption |-> df[index + 1]["_3"],
                               source |-> "caiso.com",
                               datetime |-> row_datetime'])
                  ELSE all_data_points
    /\ UNCHANGED <<fragment, csv, df, rowVars, dictVars, qcVars>>

\* line 179: return all_data_points.to_list()
ConsumptionReturn ==
    /\ pc = "c_rows"
    /\ index = Len(df)
    /\ pc' = "done"
    /\ returned' = [status |-> "returned", value |-> all_data_points]
    /\ UNCHANGED <<fragment, csv, df, index, rowVars, row_datetime,
                   all_data_points, dictVars, qcVars>>

(***************************************************************************)
(* CA_QC.py.  An element of "details" is a mapping with the keys "date"    *)
(* and "valeurs"; a date is ISO text naming an instant, or text arrow      *)
(* cannot parse.                                                           *)
(***************************************************************************)
IsoDate(t) == [iso |-> TRUE, instant |-> t]
BadDate == [iso |-> FALSE]

\* arrow.get(date, tzinfo=TIMEZONE).datetime
arrow_get(date) ==
    IF date.iso THEN [status |-> "ok", value |-> date.instant]
    ELSE Raised("ParserError")

\* values.get(key, default)
dict_get(values, key, default) ==
    IF key \in DOMAIN values THEN values[key] ELSE default

QcDates == {IsoDate(t) : t \in 0..MaxTime} \cup {BadDate}

Elem(date, valeurs) ==
    [key \in {"date", "valeurs"} |-> IF key = "date" THEN date ELSE valeurs]

QC_ZONE_KEY == "CA-QC"
SOURCE == "hydroquebec.com"

\* ---- CA_QC.fetch_consumption
DemandValeurs ==
    {<<>>,
     [key \in {"demandeTotal"} |-> 0],
     [key \in {"demandeTotal"} |-> 9]}

QcDemandElems == {Elem(d, v) : d \in QcDates, v \in DemandValeurs}

InitQcConsumption ==
    /\ pc = "qc_consumption"
    /\ data \in UNION {[1..n -> QcDemandElems] : n \in 0..MaxElems}
    /\ now = 0
    /\ csv = <<>>
    /\ fragment = <<>>
    /\ InitLocals

\* lines 70-77: one element of the loop
QcConsumptionElem ==
    /\ pc = "qc_consumption"
    /\ index < Len(data)
    /\ index' = index + 1
    /\ LET elem == data[index + 1]
       IN IF "demandeTotal" \notin DOMAIN elem["valeurs"]
          THEN /\ pc' = "qc_consumption"
               /\ returned' = returned
               /\ all_data_points' = all_data_points
          ELSE IF arrow_get(elem["date"]).status = "raised"
          THEN /\ pc' = "raised"
               /\ returned' = arrow_get(elem["date"])
               /\ all_data_points' = all_data_points
          ELSE /\ pc' = "qc_consumption"
               /\ returned' = returned
               /\ all_data_points' =
                     Append(all_data_points,
                            [zoneKey |-> QC_ZONE_KEY,
                             datetime |-> arrow_get(elem["date"]).value,
                             consumption |-> elem["valeurs"]["demandeTotal"],
                             source |-> SOURCE])
    /\ UNCHANGED <<fragment, csv, df, rowVars, row_datetime, dictVars,
                   qcVars>>

\* line 78: return consumption.to_list()
QcConsumptionReturn ==
    /\ pc = "qc_consumption"
    /\ index = Len(data)
    /\ pc' = "done"
    /\ returned' = [status |-> "returned", value |-> all_data_points]
    /\ UNCHANGED <<fragment, csv, df, index, rowVars, row_datetime,
                   all_data_points, dictVars, qcVars>>

NextConsumption ==
    \/ ConsumptionReadCsv
    \/ ConsumptionRow
    \/ ConsumptionReturn
    \/ QcConsumptionElem
    \/ QcConsumptionReturn

SpecConsumption ==
    (InitConsumption \/ InitQcConsumption) /\ [][NextConsumption]_vars

\* ---- CA_QC.fetch_production
QC_FIELDS == {"total", "autres", "hydraulique", "thermique", "solaire",
              "eolien"}

ProductionValeurs ==
    {<<>>,
     [key \in {"hydraulique", "eolien"} |->
         IF key = "hydraulique" THEN 7 ELSE 3],
     [key \in QC_FIELDS |->
         CASE key = "total" -> 10 [] key = "hydraulique" -> 7
           [] key = "eolien" -> 3 [] OTHER -> 0],
     [key \in QC_FIELDS |-> 0],
     [key \in QC_FIELDS |->
         CASE key = "total" -> 0 - 1 [] key = "hydraulique" -> 0 - 1
           [] OTHER -> 0]}

QcProductionElems == {Elem(d, v) : d \in QcDates, v \in ProductionValeurs}

InitQcProduction ==
    /\ pc = "qc_production"
    /\ data \in UNION {[1..n -> QcProductionElems] : n \in 0..MaxElems}
    /\ now \in 0..MaxTime
    /\ csv = <<>>
    /\ fragment = <<>>
    /\ InitLocals

\* line 42: timestamp <= now and values.get("total", 0) > 0
KeepElem(timestamp, values) ==
    timestamp <= now /\ dict_get(values, "total", 0) > 0

\* lines 38-57: one element of the loop
QcProductionElem ==
    /\ pc = "qc_production"
    /\ index < Len(data)
    /\ index' = index + 1
    /\ LET elem == data[index + 1]
       IN IF arrow_get(elem["date"]).status = "raised"
          THEN /\ pc' = "raised"
               /\ returned' = arrow_get(elem["date"])
               /\ all_data_points' = all_data_points
          ELSE LET values == elem["valeurs"]
                   timestamp == arrow_get(elem["date"]).value
               IN /\ pc' = "qc_production"
                  /\ returned' = returned
                  /\ all_data_points' =
                        IF KeepElem(timestamp, values)
                        THEN Append(all_data_points,
                                [zoneKey |-> QC_ZONE_KEY,
                                 datetime |-> timestamp,
                                 production |->
                                   [biomass |-> dict_get(values, "autres", 0),
                                    hydro |-> dict_get(values, "hydraulique", 0),
                                    gas |-> dict_get(values, "thermique", 0),
                                    solar |-> dict_get(values, "solaire", 0),
                                    wind |-> dict_get(values, "eolien", 0)],
                                 source |-> SOURCE])
                        ELSE all_data_points
    /\ UNCHANGED <<fragment, csv, df, rowVars, row_datetime, dictVars,
                   qcVars>>

\* line 58: return production.to_list()
QcProductionReturn ==
    /\ pc = "qc_production"
    /\ index = Len(data)
    /\ pc' = "done"
    /\ returned' = [status |-> "returned", value |-> all_data_points]
    /\ UNCHANGED <<fragment, csv, df, index, rowVars, row_datetime,
                   all_data_points, dictVars, qcVars>>

NextQcProduction == QcProductionElem \/ QcProductionReturn

SpecQcProduction == InitQcProduction /\ [][NextQcProduction]_vars

(***************************************************************************)
(* Helpers of the properties                                               *)
(***************************************************************************)
\* the value a mix holds for a mode, 0 when the mode has no entry
Entry(mix, c) == IF c \in DOMAIN mix THEN mix[c] ELSE 0

\* every entry but that of mode c is the same in both mixes
OthersUnchanged(old, new, c) ==
    \A x \in (DOMAIN old \cup DOMAIN new) \ {c} :
        x \in DOMAIN old /\ x \in DOMAIN new /\ new[x] = old[x]

\* a reading with a negative value replaced by zero
Clamped(v) == IF v < 0 THEN 0 ELSE v

\* the raw fields flagged negative-is-artifact
ArtifactFields ==
    {"solar", "wind", "geothermal", "biomass", "biogas", "coal", "nuclear",
     "natural gas", "other"}

(***************************************************************************)
(* C1: in the production pass of US_CA, every step that reads a raw field  *)
(* flagged negative-is-artifact adds zero to the ProductionMix entry of    *)
(* the field's canonical mode when the reading is negative and the reading *)
(* itself otherwise, touches no other entry and leaves StorageMix as it    *)
(* is; every appended record has an entry for each such canonical mode.    *)
(***************************************************************************)
C1_ArtifactStep ==
    pc = "modes" =>
        LET f == mode'
            v == df[index][f]
            c == PRODUCTION_MODES_MAPPING[f]
        IN /\ f \in ArtifactFields
           /\ c \in DOMAIN production_mix'
           /\ production_mix'[c] = Entry(production_mix, c) + Clamped(v)
           /\ OthersUnchanged(production_mix, production_mix', c)
           /\ storage_mix' = storage_mix

C1_ArtifactRecords ==
    \A i \in 1..Len(all_data_points) :
        /\ "production" \in DOMAIN all_data_points[i]
           => \A f \in ArtifactFields :
                 PRODUCTION_MODES_MAPPING[f]
                     \in DOMAIN all_data_points[i]["production"]

\* C1: every artifact step clamps a negative reading to a zero contribution
\* and every record holds an entry for each artifact mode
C1_NegativeArtifactAddsZero ==
    [][C1_ArtifactStep]_vars /\ []C1_ArtifactRecords

\* C1 witness: a negative natural-gas reading was just read: gas stands at zero and
\* no storage entry exists
C1_Witness ==
    /\ pc = "modes"
    /\ mode = "natural gas"
    /\ production_value < 0
    /\ "gas" \in DOMAIN production_mix
    /\ production_mix["gas"] = 0
    /\ DOMAIN storage_mix = {}

(***************************************************************************)
(* C2 as stated: a negative reading of 'small hydro', 'large hydro' or     *)
(* 'batteries' adds its magnitude to the StorageMix entry of its mode and  *)
(* nothing to ProductionMix; a positive reading adds the reading to the    *)
(* ProductionMix entry of its mode and nothing to StorageMix.              *)
(***************************************************************************)
C2_HydroStep ==
    pc = "hydro" =>
        LET v == df[index][mode']
        IN /\ mode' \in {"small hydro", "large hydro"}
           /\ v < 0 =>
                /\ "hydro" \in DOMAIN storage_mix'
                /\ storage_mix'["hydro"] = Entry(storage_mix, "hydro") - v
                /\ OthersUnchanged(storage_mix, storage_mix', "hydro")
                /\ production_mix' = production_mix
           /\ v >= 0 =>
                /\ "hydro" \in DOMAIN production_mix'
                /\ production_mix'["hydro"] =
                      Entry(production_mix, "hydro") + v
                /\ OthersUnchanged(production_mix, production_mix', "hydro")
                /\ storage_mix' = storage_mix

C2_BatteryStepAsStated ==
    pc = "battery" =>
        LET v == df[index]["batteries"]
        IN /\ v < 0 =>
                /\ "battery" \in DOMAIN storage_mix'
                /\ storage_mix'["battery"] = Entry(storage_mix, "battery") - v
                /\ production_mix' = production_mix
           /\ v > 0 =>
                /\ "battery" \in DOMAIN production_mix'
                /\ production_mix'["battery"] =
                      Entry(production_mix, "battery") + v
                /\ storage_mix' = storage_mix

\* C2 as stated: hydro and battery readings alike go to StorageMix when
\* negative and to ProductionMix when positive
C2_StorageCapableAsStated ==
    [][C2_HydroStep /\ C2_BatteryStepAsStated]_vars

(***************************************************************************)
(* C2 amended: a hydro reading v < 0 adds |v| to StorageMix hydro and      *)
(* nothing to ProductionMix, a hydro reading v >= 0 adds v to              *)
(* ProductionMix hydro and nothing to StorageMix; a 'batteries' reading v  *)
(* of either sign adds -v to StorageMix battery and nothing to             *)
(* ProductionMix.                                                          *)
(***************************************************************************)
C2_BatteryStep ==
    pc = "battery" =>
        LET v == df[index]["batteries"]
        IN /\ "battery" \in DOMAIN storage_mix'
           /\ storage_mix'["battery"] = Entry(storage_mix, "battery") - v
           /\ OthersUnchanged(storage_mix, storage_mix', "battery")
           /\ production_mix' = production_mix

\* C2 amended: hydro readings split by sign, battery readings always
\* negated into StorageMix
C2_StorageCapable == [][C2_HydroStep /\ C2_BatteryStep]_vars

\* C2 witness: a row was appended whose hydro reading charged storage and whose
\* positive battery reading stands as a negative storage entry
C2_Witness ==
    /\ pc = "rows"
    /\ index > 0
    /\ Len(all_data_points) = index
    /\ df[index]["batteries"] > 0
    /\ df[index]["small hydro"] < 0
    /\ storage_mix["battery"] = 0 - df[index]["batteries"]
    /\ storage_mix["hydro"] = 0 - df[index]["small hydro"]
    /\ "battery" \notin DOMAIN production_mix

(***************************************************************************)
(* C3: mapping a raw field never ends in an error, whatever its name:      *)
(* add_production_to_dict returns for every raw field name, and the value  *)
(* of a field without a mapping ('imports') is accounted to 'unknown'.     *)
(***************************************************************************)
\* C3: no call raises and unmapped fields are accounted to unknown
C3_FieldMapperTotal ==
    /\ ncalls > 0 =>
          /\ returned.status = "returned"
          /\ call.mode \notin DOMAIN PRODUCTION_MODES_MAPPING
                => "unknown" \in DOMAIN production_dict
    /\ \A i \in 1..Len(all_data_points) :
          "production" \in DOMAIN all_data_points[i]
             => Entry(all_data_points[i]["production"], "unknown")
                   = Clamped(df[i]["other"]) + Clamped(df[i]["imports"])

(***************************************************************************)
(* C4: a pass over rows of which some has a malformed time fragment still  *)
(* completes, and appends one record for each well-formed row, in order.   *)
(***************************************************************************)
WellFormedTime(r) == SplitHourMinute(r["time"]).status = "ok"

DatetimesOf(records) == [i \in 1..Len(records) |-> records[i]["datetime"]]

ExpectedDatetimes(rows) ==
    LET good == SelectSeq(rows, WellFormedTime)
    IN [i \in 1..Len(good) |-> SplitHourMinute(good[i]["time"])]

\* C4: the pass ends by returning one record per well-formed row
C4_NoRowErrorIsFatal ==
    (pc \in {"done", "raised"} /\ Len(csv) > 0) =>
        /\ returned.status = "returned"
        /\ DatetimesOf(returned.value) = ExpectedDatetimes(df)

(***************************************************************************)
(* C5: CA_QC.fetch_production, taking an element with a timestamp, appends *)
(* nothing when the timestamp is after `now` or when 'total' is present    *)
(* and non-positive, and appends exactly one record, carrying that         *)
(* timestamp, for every other element.                                     *)
(***************************************************************************)
C5_Discards(elem) ==
    \/ elem["date"].instant > now
    \/ "total" \in DOMAIN elem["valeurs"] /\ elem["valeurs"]["total"] <= 0

C5_ElemStep ==
    (pc = "qc_production" /\ index < Len(data) /\ data[index + 1]["date"].iso)
        => IF C5_Discards(data[index + 1])
           THEN all_data_points' = all_data_points
           ELSE /\ Len(all_data_points') = Len(all_data_points) + 1
                /\ SubSeq(all_data_points', 1, Len(all_data_points))
                      = all_data_points
                /\ all_data_points'[Len(all_data_points')]["datetime"]
                      = data[index + 1]["date"].instant

\* C5: every step keeps or discards its element as the claim says
C5_KeepsAllButFutureAndNonPositiveTotal == [][C5_ElemStep]_vars

(***************************************************************************)
(* C6: a consumption pass drops, without an error, every row whose demand  *)
(* is absent and appends one record, carrying the demand unchanged, for    *)
(* every row whose demand is present.                                      *)
(***************************************************************************)
C6_DemandPresentUS(r) == ~np_isnan(r["_3"])

C6_DemandPresentQC(elem) == "demandeTotal" \in DOMAIN elem["valeurs"]

C6_ExpectedDemands ==
    IF Len(data) > 0
    THEN LET kept == SelectSeq(data, C6_DemandPresentQC)
         IN [i \in 1..Len(kept) |-> kept[i]["valeurs"]["demandeTotal"]]
    ELSE LET kept == SelectSeq(df, C6_DemandPresentUS)
         IN [i \in 1..Len(kept) |-> kept[i]["_3"]]

\* C6: the pass ends by returning exactly the demands that were present
C6_AbsentDemandDropped ==
    (pc \in {"done", "raised"} /\ (Len(csv) > 0 \/ Len(data) > 0)) =>
        /\ returned.status = "returned"
        /\ [i \in 1..Len(returned.value) |->
               returned.value[i]["consumption"]] = C6_ExpectedDemands

(***************************************************************************)
(* C7: the reconstruction fails for every fragment that is not exactly two *)
(* colon-separated integers with hour in 0..23 and minute in 0..59, and    *)
(* for every other fragment yields exactly that hour and minute.           *)
(***************************************************************************)
ColonAt(s, i) ==
    /\ s[i] = ":"
    /\ i > 1 /\ i < Len(s)
    /\ \A j \in 1..Len(s) : j # i => s[j] \in DigitChars

C7_Valid(s) ==
    \E i \in 1..Len(s) :
        /\ ColonAt(s, i)
        /\ DecValue(SubSeq(s, 1, i - 1)) \in 0..23
        /\ DecValue(SubSeq(s, i + 1, Len(s))) \in 0..59

C7_Expected(s) ==
    LET i == CHOOSE j \in 1..Len(s) : ColonAt(s, j)
    IN [status |-> "ok",
        hour |-> DecValue(SubSeq(s, 1, i - 1)),
        minute |-> DecValue(SubSeq(s, i + 1, Len(s)))]

\* C7: a reconstruction succeeds exactly on the valid fragments
C7_InvalidFragmentRejected ==
    pc \in {"sliced", "split"} =>
        IF C7_Valid(fragment)
        THEN row_datetime = C7_Expected(fragment)
        ELSE row_datetime.status = "raised"

(***************************************************************************)
(* C8: accumulation is additive.  In every appended record of the US_CA    *)
(* production pass biomass is the sum of what 'biomass' and 'biogas'       *)
(* contribute and hydro the sum of what 'small hydro' and 'large hydro'    *)
(* contribute; every call of add_production_to_dict adds its value to what *)
(* the dict holds for the canonical mode and touches no other entry.       *)
(***************************************************************************)
C8_RecordsAdditive ==
    \A i \in 1..Len(all_data_points) :
        "production" \in DOMAIN all_data_points[i] =>
            LET row == df[i]
                production == all_data_points[i]["production"]
                hydro == {f \in {"small hydro", "large hydro"} : row[f] >= 0}
            IN /\ "biomass" \in DOMAIN production
               /\ production["biomass"] =
                     Clamped(row["biomass"]) + Clamped(row["biogas"])
               /\ "hydro" \in DOMAIN production <=> hydro # {}
               /\ Entry(production, "hydro") =
                     Clamped(row["small hydro"]) + Clamped(row["large hydro"])

C8_DictStep ==
    (pc = "dict" /\ pc' = "dict") =>
        LET c == PRODUCTION_MODES_MAPPING[call'.mode]
        IN /\ c \in DOMAIN production_dict'
           /\ production_dict'[c] = Entry(production_dict, c) + call'.value
           /\ OthersUnchanged(production_dict, production_dict', c)

\* C8: records hold sums and every dict call adds
C8_AccumulationAdditive == []C8_RecordsAdditive /\ [][C8_DictStep]_vars

\* C8 witness: a record whose biomass and hydro entries each sum two positive readings
C8_Witness ==
    /\ Len(all_data_points) > 0
    /\ df[1]["biomass"] > 0 /\ df[1]["biogas"] > 0
    /\ df[1]["small hydro"] > 0 /\ df[1]["large hydro"] > 0
    /\ all_data_points[1]["production"]["biomass"] =
          df[1]["biomass"] + df[1]["biogas"]
    /\ all_data_points[1]["production"]["hydro"] =
          df[1]["small hydro"] + df[1]["large hydro"]

(***************************************************************************)
(* C9: a completed pass reports the count of processed and of discarded    *)
(* rows; the two add up to the number of input rows and the processed      *)
(* count is the number of records appended.                                *)
(***************************************************************************)
\* C9: what a completed pass returns carries the two counts
C9_CountsReported ==
    (pc = "done" /\ Len(csv) > 0) =>
        /\ {"processed", "discarded"} \subseteq DOMAIN returned
        /\ returned["processed"] + returned["discarded"] = Len(csv)
        /\ returned["processed"] = Len(all_data_points)

(***************************************************************************)
(* C10: a last row whose Time is 00:00 is filtered out before the row      *)
(* loop; every other row is left in place.                                 *)
(***************************************************************************)
C10_Expected ==
    IF csv[Len(csv)]["Time"] = T_00_00
    THEN SubSeq(csv, 1, Len(csv) - 1)
    ELSE csv

\* C10: the rows of the loop are the CSV rows less a last 00:00 row
C10_LastMidnightRowFiltered ==
    (pc \notin {"read_csv", "dict"} /\ Len(csv) > 0) =>
        df = [i \in 1..Len(C10_Expected) |-> LowerColumns(C10_Expected[i])]

====
